---------------------------- MODULE Spec2Model ----------------------------
(***************************************************************************)
(* A model of HCPinterface/hcp/hcp.py: the HCPManager (bucket attachment,  *)
(* cached object listing, substring search, upload with checksum           *)
(* verification, download with overwrite guard, delete) working against an *)
(* S3-compatible store and the local file system, and the                  *)
(* ProgressPercentage callback.                                            *)
(*                                                                         *)
(* Strings the code inspects (object keys, search strings, local paths)    *)
(* are sequences of one-character strings, so that `in`, basename and join *)
(* are computed and not assumed.                                           *)
(*                                                                         *)
(* The store applies every request it acknowledges.  A request may instead *)
(* fail: with an error response (botocore ClientError: 403, 5xx, ...) or   *)
(* with no response at all (a connection error, which botocore raises as a *)
(* BotoCoreError and never as a ClientError).                              *)
(***************************************************************************)
EXTENDS Integers, Sequences, FiniteSets, TLC

VARIABLES
    bucket,     \* self.bucket: the attached bucket's name, or NoBucket
    objects,    \* self.objects: [loaded |-> hasattr(self, 'objects'), items |-> the list]
    store,      \* the remote store: store[b][k] = 0 (no object) or the object's content
    fs,         \* the local files: fs[p] = 0 (no file) or the file's content
    last,       \* the last call: what was called, with what, and how it ended
    listed      \* full listings made by get_objects since the last reload or attach

mvars == <<bucket, objects, store, fs, last, listed>>

\* One ProgressPercentage and the threads that call it.
VARIABLES
    size,               \* self._size
    seen_so_far,        \* self._seen_so_far
    previous_time,      \* self._previous_time
    previous_bytesize,  \* self._previous_bytesize
    speed,              \* self._speed, in hundredths of a MB/s
    lock,               \* self._lock: the thread holding it, or 0
    pc,                 \* where each thread is in __call__
    amount,             \* each thread's bytes_amount
    read,               \* each thread's read of self._seen_so_far in `+=`
    passed,             \* the sum of every bytes_amount passed so far
    sample              \* the last _calculate_speed: its time, and what it did

pvars == <<size, seen_so_far, previous_time, previous_bytesize, speed, lock, pc,
           amount, read, passed, sample>>

vars == <<mvars, pvars>>

-----------------------------------------------------------------------------
(* Strings *)

K1 == <<"a", "/", "x">>
K2 == <<"b", "/", "y">>

\* The keys an object of the store can have.
Keys == {K1, K2}

\* The keys callers ask for: those, and one no object has.
AnyKeys == Keys \cup {<<"a", "/", "z">>}

\* The strings callers search for: in every key, in both, in one, in none (the
\* case differs), and a whole key.
SearchStrings == {<<>>, <<"/">>, <<"x">>, <<"X">>, K2}

Buckets == {"b1", "b2"}

NoBucket == "unattached"

\* Contents of objects and files; 0 stands for "does not exist".
Contents == {1, 2}

\* Python's `sub in s` on strings
Contains(s, sub) ==
    \E i \in 0..(Len(s) - Len(sub)) : SubSeq(s, i + 1, i + Len(sub)) = sub

\* Python's `a < b` on strings (code point order; "/" < "a" < "b" ...)
CharRank(c) ==
    CASE c = "/" -> 1
      [] c = "X" -> 2
      [] c = "a" -> 3
      [] c = "b" -> 4
      [] c = "x" -> 5
      [] c = "y" -> 6
      [] c = "z" -> 7
      [] OTHER -> 0

RECURSIVE StrLess(_, _)
StrLess(a, b) ==
    IF b = <<>> THEN FALSE
    ELSE IF a = <<>> THEN TRUE
    ELSE IF Head(a) = Head(b) THEN StrLess(Tail(a), Tail(b))
    ELSE CharRank(Head(a)) < CharRank(Head(b))

\* os.path.basename: what follows the last "/"
RECURSIVE basename(_)
basename(p) ==
    IF p = <<>> THEN <<>>
    ELSE IF p[Len(p)] = "/" THEN <<>>
    ELSE Append(basename(SubSeq(p, 1, Len(p) - 1)), p[Len(p)])

\* os.path.join(a, b) for a relative b
join(a, b) ==
    IF a = <<>> \/ a[Len(a)] = "/" THEN a \o b ELSE a \o <<"/">> \o b

-----------------------------------------------------------------------------
(* The local file system *)

Dirs == {<<"d">>}

FilePaths == {<<"f">>} \cup {join(d, basename(k)) : d \in Dirs, k \in Keys}

LocalPaths == FilePaths \cup Dirs

\* os.path.isfile in the place of os.path.isdir
isdir_isfile(p) == p \in FilePaths

isdir(p) == p \in Dirs

\* os.path.isdir in the place of os.path.exists
exists_isdir(files, p) == p \in Dirs

exists(files, p) == p \in Dirs \/ (p \in FilePaths /\ files[p] # 0)

-----------------------------------------------------------------------------
(* The remote store *)

\* A listing stops being counted past this many.
MaxListed == 2

\* The entity tag of an object stored in one part: a digest of its content.
ETag(c) == (5 * c + 3) % 7

\* helpers.calculate_etag of a local file with content c
calculate_etag(c) == ETag(c)

HasObject(st, b, k) == b \in Buckets /\ k \in Keys /\ st[b][k] # 0

\* What bucket.objects.all() yields for an object: an ObjectSummary.
ObjectSummary(st, b, k) ==
    [kind |-> "ObjectSummary", bucket_name |-> b, key |-> k, e_tag |-> ETag(st[b][k])]

\* What bucket.Object(key) is once loaded.
Object(st, b, k) ==
    [kind |-> "Object", bucket_name |-> b, key |-> k, e_tag |-> ETag(st[b][k])]

\* The keys of S in the order the store lists them (ascending).
RECURSIVE SortedKeys(_)
SortedKeys(S) ==
    IF S = {} THEN <<>>
    ELSE LET m == CHOOSE k \in S : \A j \in S \ {k} : StrLess(k, j)
         IN  <<m>> \o SortedKeys(S \ {m})

\* list(self.bucket.objects.all())
Listing(st, b) ==
    LET ks == SortedKeys({k \in Keys : st[b][k] # 0})
    IN  [i \in 1..Len(ks) |-> ObjectSummary(st, b, ks[i])]

\* [bucket.name for bucket in self.s3.buckets.all()]
BucketNames == <<"b1", "b2">>

-----------------------------------------------------------------------------
(* Failing requests *)

\* A call issues at most this many requests (upload_file: put, head, delete).
MaxRequests == 3

\* Which request of a call fails, if any, and how.
Faults ==
    {[at |-> 0, kind |-> "none"]} \cup
    [at : 1..MaxRequests, kind : {"ClientError", "ConnectionError"}]

FaultAt(f, i) == IF f.at = i THEN f.kind ELSE "none"

Range(seq) == {seq[i] : i \in 1..Len(seq)}

-----------------------------------------------------------------------------
(* The record of the last call *)

NoCall ==
    [op        |-> "none",   \* the method called
     arg       |-> <<>>,     \* its key or search string
     res       |-> "ok",     \* "ok", "None" (returned None), or the exception raised
     ret       |-> <<>>,     \* the objects returned
     reqs      |-> <<>>,     \* the requests sent to the store, in order
     fault     |-> "none",   \* how a request of the call failed, if one did
     attached  |-> FALSE,    \* hasattr(self, 'bucket') when the call started
     hadCache  |-> FALSE,    \* hasattr(self, 'objects') when the call started
     cacheSame |-> TRUE,     \* self.objects is as it was when the call started
     fsSame    |-> TRUE,     \* the local files are as they were
     storeSame |-> TRUE,     \* the store is as it was
     force     |-> FALSE,    \* download_file's force
     target    |-> <<>>,     \* download_file's resolved local path, if there is one
     existed   |-> FALSE,    \* that path existed when the call started
     had       |-> 0,        \* the content of the file at that path then, 0 if none
     local     |-> 0,        \* the content of upload_file's local file, 0 if none
     stored    |-> 0,        \* the content the store kept of what upload_file sent
     dest      |-> <<>>,     \* download_file's local_path as given
     bare      |-> FALSE,    \* download_file's obj was a key (a str)
     flag      |-> FALSE,    \* a command's --fast or --force
     matches   |-> <<>>,     \* what a command's search_objects returned
     asked     |-> <<>>,     \* the keys a command asked about, in order
     answers   |-> <<>>,     \* the lines a command read, in order
     moved     |-> <<>>,     \* the keys or paths a command transferred or deleted
     input     |-> <<>>,     \* the upload command's input path
     valid     |-> {}]       \* the files that pass the upload command's validation

\* The record of a call of op with arg that starts in the current state.
Call(op, arg) ==
    [NoCall EXCEPT !.op = op, !.arg = arg,
                   !.attached = (bucket # NoBucket), !.hadCache = objects.loaded]

\* The call ends as log says; what it changed is read off the state it leaves.
Returns(log) ==
    last' = [log EXCEPT !.cacheSame = (objects' = objects),
                        !.fsSame = (fs' = fs),
                        !.storeSame = (store' = store)]

NoObjects == [loaded |-> FALSE, items |-> <<>>]

\* What the buckets hold when the session starts.
InitialStore ==
    [b \in Buckets |->
        [k \in Keys |-> IF b = "b1" THEN (IF k = K1 THEN 2 ELSE 1)
                        ELSE (IF k = K1 THEN 0 ELSE 2)]]

\* HCPManager.__init__: no bucket, no listing.
MInit ==
    /\ bucket = NoBucket
    /\ objects = NoObjects
    /\ store = InitialStore
    /\ fs = [p \in FilePaths |-> IF p = <<"f">> THEN 1 ELSE 0]
    /\ last = NoCall
    /\ listed = 0

-----------------------------------------------------------------------------
(* bucketcheck, hcp.py 74-83 *)

\* A decorator that checks nothing: the method runs, and fails at self.bucket.
bucketcheck_unchecked(op, arg, fn) ==
    \/ /\ bucket # NoBucket
       /\ fn
    \/ /\ bucket = NoBucket
       /\ UNCHANGED <<bucket, objects, store, fs, listed>>
       /\ Returns([Call(op, arg) EXCEPT !.res = "AttributeError"])

\* The decorated method runs only with a bucket attached.
bucketcheck(op, arg, fn) ==
    \/ /\ bucket # NoBucket
       /\ fn
    \/ /\ bucket = NoBucket
       /\ UNCHANGED <<bucket, objects, store, fs, listed>>
       /\ Returns([Call(op, arg) EXCEPT !.res = "UnattachedBucketError"])

-----------------------------------------------------------------------------
(* HCPManager *)

list_buckets(f) ==
    /\ UNCHANGED <<bucket, objects, store, fs, listed>>
    /\ Returns(IF FaultAt(f, 1) # "none"
               THEN [Call("list_buckets", <<>>) EXCEPT
                        !.res = f.kind, !.fault = f.kind, !.reqs = <<"ListBuckets">>]
               ELSE [Call("list_buckets", <<>>) EXCEPT
                        !.ret = BucketNames, !.reqs = <<"ListBuckets">>])

\* attach_bucket without the delattr
attach_bucket_keeps(b) ==
    /\ bucket' = b
    /\ UNCHANGED <<objects, listed, store, fs>>
    /\ Returns(Call("attach_bucket", <<>>))

attach_bucket(b) ==
    /\ bucket' = b
    /\ objects' = NoObjects
    /\ listed' = 0
    /\ UNCHANGED <<store, fs>>
    /\ Returns(Call("attach_bucket", <<>>))

\* get_object without the obj.content_length probe: an Object for any key
GetObjectBody_unprobed(st, b, key, flt) ==
    [res |-> "ok",
     ret |-> <<[kind |-> "Object", bucket_name |-> b, key |-> key,
                e_tag |-> IF HasObject(st, b, key) THEN ETag(st[b][key]) ELSE 0]>>]

\* get_object with `except Exception` in the place of `except ClientError`
GetObjectBody_catchall(st, b, key, flt) ==
    IF flt # "none" \/ ~HasObject(st, b, key)
    THEN [res |-> "None", ret |-> <<>>]
    ELSE [res |-> "ok", ret |-> <<Object(st, b, key)>>]

\* The outcome of get_object's body: [res, ret].
GetObjectBody(st, b, key, flt) ==
    IF flt = "ConnectionError" THEN [res |-> "ConnectionError", ret |-> <<>>]
    ELSE IF flt = "ClientError" \/ ~HasObject(st, b, key)
         THEN [res |-> "None", ret |-> <<>>]
         ELSE [res |-> "ok", ret |-> <<Object(st, b, key)>>]

get_object(key, f) ==
    bucketcheck("get_object", key,
        LET r == GetObjectBody(store, bucket, key, FaultAt(f, 1))
        IN  /\ UNCHANGED <<bucket, objects, store, fs, listed>>
            /\ Returns([Call("get_object", key) EXCEPT
                           !.res = r.res, !.ret = r.ret,
                           !.fault = FaultAt(f, 1), !.reqs = <<"HeadObject">>]))

\* The outcome of list(self.bucket.objects.all()): [res, items].
ListObjectsBody(st, b, flt) ==
    IF flt # "none" THEN [res |-> flt, items |-> <<>>]
    ELSE [res |-> "ok", items |-> Listing(st, b)]

\* get_objects without the hasattr test: it lists whatever it holds
GetObjectsBody_uncached(objs, st, b, flt, n) ==
    IF flt # "none"
    THEN [res |-> flt, ret |-> <<>>, objects |-> objs,
          reqs |-> <<"ListObjects">>, fault |-> flt, listed |-> n]
    ELSE [res |-> "ok", ret |-> Listing(st, b),
          objects |-> [loaded |-> TRUE, items |-> Listing(st, b)],
          reqs |-> <<"ListObjects">>, fault |-> "none",
          listed |-> IF n < MaxListed THEN n + 1 ELSE n]

\* The outcome of get_objects' body on the cache objs, n listings counted so far:
\* [res, ret, objects, reqs, fault, listed].
GetObjectsBody(objs, st, b, flt, n) ==
    IF objs.loaded
    THEN [res |-> "ok", ret |-> objs.items, objects |-> objs, reqs |-> <<>>,
          fault |-> "none", listed |-> n]
    ELSE LET l == ListObjectsBody(st, b, flt)
         IN  IF l.res # "ok"
             THEN [res |-> l.res, ret |-> <<>>, objects |-> objs,
                   reqs |-> <<"ListObjects">>, fault |-> flt, listed |-> n]
             ELSE [res |-> "ok", ret |-> l.items,
                   objects |-> [loaded |-> TRUE, items |-> l.items],
                   reqs |-> <<"ListObjects">>, fault |-> "none",
                   listed |-> IF n < MaxListed THEN n + 1 ELSE n]

get_objects(f) ==
    bucketcheck("get_objects", <<>>,
        LET r == GetObjectsBody(objects, store, bucket, FaultAt(f, 1), listed)
        IN  /\ objects' = r.objects
            /\ listed' = r.listed
            /\ UNCHANGED <<bucket, store, fs>>
            /\ Returns([Call("get_objects", <<>>) EXCEPT
                           !.res = r.res, !.ret = r.ret, !.reqs = r.reqs,
                           !.fault = r.fault]))

reload_objects(f) ==
    bucketcheck("reload_objects", <<>>,
        LET l == ListObjectsBody(store, bucket, FaultAt(f, 1))
        IN  /\ objects' = IF l.res = "ok"
                          THEN [loaded |-> TRUE, items |-> l.items]
                          ELSE objects
            /\ listed' = 0
            /\ UNCHANGED <<bucket, store, fs>>
            /\ Returns([Call("reload_objects", <<>>) EXCEPT
                           !.res = l.res,
                           !.ret = IF l.res = "ok" THEN l.items ELSE <<>>,
                           !.reqs = <<"ListObjects">>,
                           !.fault = FaultAt(f, 1)]))

\* obj.key.startswith(string) in the place of `string in obj.key`
Matching_startswith(objs, string) ==
    SelectSeq(objs, LAMBDA obj : /\ Len(string) <= Len(obj.key)
                                 /\ SubSeq(obj.key, 1, Len(string)) = string)

\* [obj for obj in objs if string in obj.key]
Matching(objs, string) == SelectSeq(objs, LAMBDA obj : Contains(obj.key, string))

search_objects(string, f) ==
    bucketcheck("search_objects", string,
        LET r == GetObjectsBody(objects, store, bucket, FaultAt(f, 1), listed)
        IN  /\ objects' = r.objects
            /\ listed' = r.listed
            /\ UNCHANGED <<bucket, store, fs>>
            /\ Returns([Call("search_objects", string) EXCEPT
                           !.res = r.res,
                           !.ret = IF r.res = "ok"
                                   THEN Matching(r.objects.items, string)
                                   ELSE <<>>,
                           !.reqs = r.reqs,
                           !.fault = r.fault]))

\* bucket.objects.delete() in the place of delete_objects naming the key
DeleteObjectBody_all(st, b, key, flt) ==
    IF flt # "none" THEN [res |-> flt, store |-> st]
    ELSE [res |-> "ok", store |-> [st EXCEPT ![b] = [k \in Keys |-> 0]]]

\* delete_objects naming no key of the bucket: acknowledged, nothing removed
DeleteObjectBody_keeps(st, b, key, flt) ==
    IF flt # "none" THEN [res |-> flt, store |-> st]
    ELSE [res |-> "ok", store |-> st]

\* The outcome of delete_object's body: [res, store].
DeleteObjectBody(st, b, key, flt) ==
    IF flt # "none" THEN [res |-> flt, store |-> st]
    ELSE [res |-> "ok",
          store |-> IF key \in Keys THEN [st EXCEPT ![b][key] = 0] ELSE st]

\* delete_object that also drops the object from self.objects
delete_object_evicts(key, f) ==
    bucketcheck("delete_object", key,
        LET r == DeleteObjectBody(store, bucket, key, FaultAt(f, 1))
        IN  /\ store' = r.store
            /\ objects' = IF r.res = "ok"
                          THEN [objects EXCEPT
                                  !.items = SelectSeq(@, LAMBDA obj : obj.key # key)]
                          ELSE objects
            /\ UNCHANGED <<bucket, fs, listed>>
            /\ Returns([Call("delete_object", key) EXCEPT
                           !.res = r.res, !.reqs = <<"DeleteObjects">>,
                           !.fault = FaultAt(f, 1)]))

delete_object(key, f) ==
    bucketcheck("delete_object", key,
        LET r == DeleteObjectBody(store, bucket, key, FaultAt(f, 1))
        IN  /\ store' = r.store
            /\ UNCHANGED <<bucket, objects, fs, listed>>
            /\ Returns([Call("delete_object", key) EXCEPT
                           !.res = r.res, !.reqs = <<"DeleteObjects">>,
                           !.fault = FaultAt(f, 1)]))

\* The outcome of upload_file's body for a local file with content c, of which
\* the store keeps `stored`: [res, store, reqs, fault].
UploadFileBody(st, b, c, remote_key, stored, f) ==
    IF c = 0
    THEN \* ProgressPercentage(local_path): os.path.getsize fails
         [res |-> "FileNotFoundError", store |-> st, reqs |-> <<>>, fault |-> "none"]
    ELSE IF FaultAt(f, 1) # "none"
    THEN [res |-> f.kind, store |-> st, reqs |-> <<"PutObject">>, fault |-> f.kind]
    ELSE
    LET st1            == [st EXCEPT ![b][remote_key] = stored]
        calculated_etag == calculate_etag(c)
        remote_obj     == GetObjectBody(st1, b, remote_key, FaultAt(f, 2))
    IN  IF remote_obj.res = "ConnectionError"
        THEN [res |-> "ConnectionError", store |-> st1,
              reqs |-> <<"PutObject", "HeadObject">>, fault |-> f.kind]
        ELSE IF remote_obj.res = "None"
        THEN \* remote_obj.e_tag on None
             [res |-> "AttributeError", store |-> st1,
              reqs |-> <<"PutObject", "HeadObject">>, fault |-> FaultAt(f, 2)]
        ELSE IF calculated_etag # remote_obj.ret[1].e_tag
        THEN LET d == DeleteObjectBody(st1, b, remote_obj.ret[1].key, FaultAt(f, 3))
             IN  [res |-> IF d.res = "ok" THEN "MismatchChecksumError" ELSE d.res,
                  store |-> d.store,
                  reqs |-> <<"PutObject", "HeadObject", "DeleteObjects">>,
                  fault |-> FaultAt(f, 3)]
        ELSE [res |-> "ok", store |-> st1,
              reqs |-> <<"PutObject", "HeadObject">>, fault |-> "none"]

upload_file(local_path, remote_key, stored, f) ==
    bucketcheck("upload_file", remote_key,
        LET r == UploadFileBody(store, bucket, fs[local_path], remote_key, stored, f)
        IN  /\ store' = r.store
            /\ UNCHANGED <<bucket, objects, fs, listed>>
            /\ Returns([Call("upload_file", remote_key) EXCEPT
                           !.res = r.res, !.reqs = r.reqs, !.fault = r.fault,
                           !.local = fs[local_path],
                           !.stored = IF "PutObject" \in Range(r.reqs) /\ FaultAt(f, 1) = "none"
                                      THEN stored ELSE 0]))

\* The outcome of download_file's body: [res, fs, reqs, fault].
\* obj is a key (isStr) or an object with that key.
DownloadFileBody(st, b, files, isStr, key, local_path, force, f) ==
    LET obj  == IF isStr THEN GetObjectBody(st, b, key, FaultAt(f, 1))
                ELSE [res |-> "ok", ret |-> <<[key |-> key]>>]
        head == IF isStr THEN <<"HeadObject">> ELSE <<>>
        n    == Len(head) + 1
        out(res, fl, reqs, flt) ==
            [res |-> res, fs |-> fl, reqs |-> reqs, fault |-> flt]
    IN  IF obj.res = "ConnectionError"
        THEN out("ConnectionError", files, head, "ConnectionError")
        ELSE IF isdir(local_path) /\ obj.res = "None"
        THEN \* obj.key on None
             out("AttributeError", files, head, FaultAt(f, 1))
        ELSE
        LET target == IF isdir(local_path)
                      THEN join(local_path, basename(obj.ret[1].key))
                      ELSE local_path
        IN  IF exists(files, target) /\ ~force
            THEN out("LocalFileExistsError", files, head, FaultAt(f, 1))
            ELSE IF obj.res = "None"
            THEN \* obj.key on None
                 out("AttributeError", files, head, FaultAt(f, 1))
            ELSE IF FaultAt(f, n) # "none"
            THEN out(f.kind, files, Append(head, "GetObject"), f.kind)
            ELSE IF ~HasObject(st, b, obj.ret[1].key)
            THEN \* the store answers 404
                 out("ClientError", files, Append(head, "GetObject"), "none")
            ELSE out("ok", [files EXCEPT ![target] = st[b][obj.ret[1].key]],
                     Append(head, "GetObject"), "none")

\* The path download_file(obj, local_path) is to write, obj having the key `key`
\* (hasKey) or being None: local_path, or the file of that directory named as
\* the key's last part; <<>> when obj is None and local_path a directory.
TargetOf(hasKey, key, local_path) ==
    IF ~isdir(local_path) THEN local_path
    ELSE IF hasKey THEN join(local_path, basename(key))
    ELSE <<>>

download_file(isStr, key, local_path, force, f) ==
    bucketcheck("download_file", key,
        LET r      == DownloadFileBody(store, bucket, fs, isStr, key, local_path,
                                       force, f)
            found  == GetObjectBody(store, bucket, key, FaultAt(f, 1)).res = "ok"
            target == TargetOf(~isStr \/ found, key, local_path)
        IN  /\ fs' = r.fs
            /\ UNCHANGED <<bucket, objects, store, listed>>
            /\ Returns([Call("download_file", key) EXCEPT
                           !.res = r.res, !.reqs = r.reqs, !.fault = r.fault,
                           !.force = force, !.target = target,
                           !.dest = local_path, !.bare = isStr,
                           !.existed = exists(fs, target),
                           !.had = IF target \in FilePaths THEN fs[target] ELSE 0]))

\* obj.content_length of an object with content c
content_length(c) == c * 60000

\* read_object reads no object of this size or more.
ReadLimit == 100000

\* kind: what obj is (an Object from get_object, an ObjectSummary from a listing);
\* c: the content the object had when obj was loaded.
read_object(kind, key, c, f) ==
    bucketcheck("read_object", key,
        /\ UNCHANGED <<bucket, objects, store, fs, listed>>
        /\ Returns(
             IF kind = "ObjectSummary"
             THEN \* an ObjectSummary has no content_length
                  [Call("read_object", key) EXCEPT !.res = "AttributeError"]
             ELSE IF ~(content_length(c) < ReadLimit)
             THEN Call("read_object", key)
             ELSE IF FaultAt(f, 1) # "none"
             THEN [Call("read_object", key) EXCEPT
                      !.res = f.kind, !.fault = f.kind, !.reqs = <<"GetObject">>]
             ELSE IF ~HasObject(store, bucket, key)
             THEN [Call("read_object", key) EXCEPT
                      !.res = "ClientError", !.reqs = <<"GetObject">>]
             ELSE [Call("read_object", key) EXCEPT
                      !.ret = <<store[bucket][key]>>, !.reqs = <<"GetObject">>]))

-----------------------------------------------------------------------------
(* ProgressPercentage, hcp.py 29-71 *)

\* The threads of the transfer that call the callback.
NumThreads == 2

Threads == 1..NumThreads

\* Calls of the callback in one transfer.
MaxCalls == 3

\* time.time() is read in ticks; this many make a second.
TicksPerSecond == 2

\* The last tick a clock reading can show.
MaxTime == 5

\* self._interval, in seconds
interval == 1

\* The sizes of the chunks reported to the callback, in bytes.
Amounts == {262144, 1048576}

\* The size of the file or object transferred, in bytes.
TransferSize == 3145728

\* round(x, 2) of x = n / d, in hundredths: to the nearest, a tie to the even one
Round2(n, d) ==
    LET q == (100 * n) \div d
        r == (100 * n) % d
    IN  IF 2 * r > d THEN q + 1
        ELSE IF 2 * r = d THEN q + (q % 2)
        ELSE q

\* round(((seen - previous) / (curr - prev)) / (1024 ** 2), 2), the times in ticks
SpeedOf(bytes, ticks) == Round2(bytes * TicksPerSecond, ticks * 1048576)

\* What the last _calculate_speed did: the thread it ran in (0: none so far),
\* the time it read, what self held before it, and whether it changed any of that.
NoSample == [by |-> 0, time |-> 0, changed |-> FALSE,
             before |-> [time |-> 0, bytesize |-> 0, speed |-> 0]]

\* ProgressPercentage.__init__ at time t0
PInit(t0) ==
    /\ size = TransferSize
    /\ seen_so_far = 0
    /\ previous_time = t0
    /\ previous_bytesize = 0
    /\ speed = 0
    /\ lock = 0
    /\ pc = [t \in Threads |-> "idle"]
    /\ amount = [t \in Threads |-> 0]
    /\ read = [t \in Threads |-> 0]
    /\ passed = [sum |-> 0, calls |-> 0]
    /\ sample = NoSample

\* A thread calls the callback: __call__(bytes_amount)
Begin(t, bytes_amount) ==
    /\ pc[t] = "idle"
    /\ passed.calls < MaxCalls
    /\ pc' = [pc EXCEPT ![t] = "acquire"]
    /\ amount' = [amount EXCEPT ![t] = bytes_amount]
    /\ passed' = [sum |-> passed.sum + bytes_amount, calls |-> passed.calls + 1]
    /\ UNCHANGED <<size, seen_so_far, previous_time, previous_bytesize, speed,
                   lock, read, sample>>

\* __call__ without `with self._lock`
Acquire_unlocked(t) ==
    /\ pc[t] = "acquire"
    /\ lock' = t
    /\ pc' = [pc EXCEPT ![t] = "load"]
    /\ UNCHANGED <<size, seen_so_far, previous_time, previous_bytesize, speed,
                   amount, read, passed, sample>>

\* with self._lock: the thread waits until the lock is free, and takes it
Acquire(t) ==
    /\ pc[t] = "acquire"
    /\ lock = 0
    /\ lock' = t
    /\ pc' = [pc EXCEPT ![t] = "load"]
    /\ UNCHANGED <<size, seen_so_far, previous_time, previous_bytesize, speed,
                   amount, read, passed, sample>>

\* self._seen_so_far += bytes_amount: the read ...
Load(t) ==
    /\ pc[t] = "load"
    /\ read' = [read EXCEPT ![t] = seen_so_far]
    /\ pc' = [pc EXCEPT ![t] = "store"]
    /\ UNCHANGED <<size, seen_so_far, previous_time, previous_bytesize, speed,
                   lock, amount, passed, sample>>

\* ... and the write
Store(t) ==
    /\ pc[t] = "store"
    /\ seen_so_far' = read[t] + amount[t]
    /\ pc' = [pc EXCEPT ![t] = "speed"]
    /\ UNCHANGED <<size, previous_time, previous_bytesize, speed, lock, amount,
                   read, passed, sample>>

\* `>=` in the place of `>`
Due_atinterval(curr_time) == curr_time - interval * TicksPerSecond >= previous_time

\* Whether _calculate_speed takes a new sample at curr_time.
Due(curr_time) == curr_time - interval * TicksPerSecond > previous_time

\* speed = self._calculate_speed(), time.time() reading curr_time
_calculate_speed(t, curr_time) ==
    /\ pc[t] = "speed"
    /\ IF Due(curr_time)
       THEN /\ speed' = SpeedOf(seen_so_far - previous_bytesize,
                                curr_time - previous_time)
            /\ previous_time' = curr_time
            /\ previous_bytesize' = seen_so_far
       ELSE UNCHANGED <<speed, previous_time, previous_bytesize>>
    /\ sample' = [by |-> t, time |-> curr_time,
                  changed |-> <<previous_time', previous_bytesize', speed'>> #
                              <<previous_time, previous_bytesize, speed>>,
                  before |-> [time |-> previous_time,
                              bytesize |-> previous_bytesize,
                              speed |-> speed]]
    /\ pc' = [pc EXCEPT ![t] = "write"]
    /\ UNCHANGED <<size, seen_so_far, lock, amount, read, passed>>

\* The line is written, and the with block left: the lock is released.
Write(t) ==
    /\ pc[t] = "write"
    /\ lock' = 0
    /\ pc' = [pc EXCEPT ![t] = "idle"]
    /\ UNCHANGED <<size, seen_so_far, previous_time, previous_bytesize, speed,
                   amount, read, passed, sample>>

PNext ==
    \/ \E t \in Threads, bytes_amount \in Amounts :
          Begin(t, bytes_amount) /\ UNCHANGED mvars
    \/ \E t \in Threads : Acquire(t) /\ UNCHANGED mvars
    \/ \E t \in Threads : Load(t) /\ UNCHANGED mvars
    \/ \E t \in Threads : Store(t) /\ UNCHANGED mvars
    \/ \E t \in Threads, curr_time \in 0..MaxTime :
          _calculate_speed(t, curr_time) /\ UNCHANGED mvars
    \/ \E t \in Threads : Write(t) /\ UNCHANGED mvars

\* One ProgressPercentage, made at any time, called from the transfer's threads.
ProgressInit == \E t0 \in 0..MaxTime : MInit /\ PInit(t0)

SpecProgress == ProgressInit /\ [][PNext]_vars

-----------------------------------------------------------------------------
(* The manager's sessions *)

\* Every request but get_object's raises what the client raises, whichever it
\* is, so for those one kind of failure is drawn: no response.  Lost(n): the
\* failures of a call of at most n such requests.
Lost(n) == {f \in Faults : f.at <= n /\ f.kind # "ClientError"}

\* The failures of get_object's request.
Faults1 == {f \in Faults : f.at <= 1}

\* The failures of upload_file's requests: put, get_object's head, delete.
UploadFaults == {f \in Faults : f.kind = "ClientError" => f.at = 2}

\* The failures of download_file's requests: get_object's head for a key, get.
DownloadFaults(isStr) ==
    IF isStr THEN {f \in Faults : f.at <= 2 /\ (f.kind = "ClientError" => f.at = 1)}
    ELSE Lost(1)

Init == MInit /\ PInit(0)

\* A session of attaching, listing, searching, uploading and deleting.
Next ==
    \/ \E f \in Lost(1) : list_buckets(f) /\ UNCHANGED pvars
    \/ \E b \in Buckets : attach_bucket(b) /\ UNCHANGED pvars
    \/ \E f \in Lost(1) : get_objects(f) /\ UNCHANGED pvars
    \/ \E f \in Lost(1) : reload_objects(f) /\ UNCHANGED pvars
    \/ \E string \in SearchStrings, f \in Lost(1) :
          search_objects(string, f) /\ UNCHANGED pvars
    \/ \E key \in Keys, stored \in Contents, f \in Lost(1) :
          upload_file(<<"f">>, key, stored, f) /\ UNCHANGED pvars
    \/ \E key \in Keys, f \in Lost(1) : delete_object(key, f) /\ UNCHANGED pvars

Spec == Init /\ [][Next]_vars

\* A session of uploads: lookups, uploads that may fail at any request, deletions.
UploadNext ==
    \/ \E b \in Buckets : attach_bucket(b) /\ UNCHANGED pvars
    \/ \E key \in AnyKeys, f \in Faults1 : get_object(key, f) /\ UNCHANGED pvars
    \/ \E p \in {<<"f">>, <<"d", "/", "x">>}, key \in Keys, stored \in Contents,
          f \in UploadFaults :
          upload_file(p, key, stored, f) /\ UNCHANGED pvars
    \/ \E key \in Keys, f \in Lost(1) : delete_object(key, f) /\ UNCHANGED pvars

SpecUpload == Init /\ [][UploadNext]_vars

\* Where the session's downloads go: a file that exists, a path where no file
\* is until one is downloaded there, and a directory.
DownloadPaths == {<<"f">>, <<"d", "/", "x">>, <<"d">>}

\* A session of downloads from one bucket, of objects that may be deleted.
DownloadNext ==
    \/ attach_bucket("b1") /\ UNCHANGED pvars
    \/ \E isStr \in BOOLEAN :
        \E key \in (IF isStr THEN AnyKeys ELSE Keys), p \in DownloadPaths,
           force \in BOOLEAN, f \in DownloadFaults(isStr) :
          /\ download_file(isStr, key, p, force, f)
          /\ UNCHANGED pvars
    \/ \E key \in Keys, f \in Lost(1) : delete_object(key, f) /\ UNCHANGED pvars
    \/ \E kind \in {"Object", "ObjectSummary"}, key \in Keys, c \in Contents,
          f \in Lost(1) : read_object(kind, key, c, f) /\ UNCHANGED pvars

SpecDownload == Init /\ [][DownloadNext]_vars

\* A manager no bucket is attached to, whatever the store and the files hold.
UnattachedInit ==
    \E st \in [Buckets -> [Keys -> {0} \cup Contents]],
       files \in [FilePaths -> {0} \cup Contents] :
        /\ st["b2"] = InitialStore["b2"]
        /\ files[<<"d", "/", "y">>] = 0
        /\ bucket = NoBucket
        /\ objects = NoObjects
        /\ store = st
        /\ fs = files
        /\ last = NoCall
        /\ listed = 0
        /\ PInit(0)

UnattachedNext ==
    \/ \E f \in Lost(1) : list_buckets(f) /\ UNCHANGED pvars
    \/ \E key \in AnyKeys, f \in Faults1 : get_object(key, f) /\ UNCHANGED pvars
    \/ \E f \in Lost(1) : get_objects(f) /\ UNCHANGED pvars
    \/ \E f \in Lost(1) : reload_objects(f) /\ UNCHANGED pvars
    \/ \E string \in SearchStrings, f \in Lost(1) :
          search_objects(string, f) /\ UNCHANGED pvars
    \/ \E p \in FilePaths, key \in Keys, stored \in Contents, f \in UploadFaults :
          upload_file(p, key, stored, f) /\ UNCHANGED pvars
    \/ \E isStr \in BOOLEAN :
        \E key \in (IF isStr THEN AnyKeys ELSE Keys), p \in LocalPaths,
           force \in BOOLEAN, f \in DownloadFaults(isStr) :
          /\ download_file(isStr, key, p, force, f)
          /\ UNCHANGED pvars
    \/ \E key \in Keys, f \in Lost(1) : delete_object(key, f) /\ UNCHANGED pvars
    \/ \E kind \in {"Object", "ObjectSummary"}, key \in Keys, c \in Contents,
          f \in Lost(1) : read_object(kind, key, c, f) /\ UNCHANGED pvars

SpecUnattached == UnattachedInit /\ [][UnattachedNext]_vars

-----------------------------------------------------------------------------
(* The commands, cli/functions.py.  ctx['hcpm'] is the manager. *)

\* The failure f as a call sees it that starts after k requests of the command.
After(f, k) ==
    IF f.at > k THEN [at |-> f.at - k, kind |-> f.kind]
    ELSE [at |-> 0, kind |-> "none"]

\* The queries given to the commands: in one key, in both, a whole key, in none.
Queries == {<<"x">>, <<"/">>, K1, <<"X">>}

\* Where the download command writes: a file, a directory.
Destinations == {<<"f">>, <<"d">>}

\* The outcome of download_file's body for obj = None: [res, fs, reqs, fault].
DownloadNoneBody(files, local_path, force) ==
    IF isdir(local_path)
    THEN \* obj.key on None
         [res |-> "AttributeError", fs |-> files, reqs |-> <<>>, fault |-> "none"]
    ELSE IF exists(files, local_path) /\ ~force
    THEN [res |-> "LocalFileExistsError", fs |-> files, reqs |-> <<>>,
          fault |-> "none"]
    ELSE \* obj.key on None
         [res |-> "AttributeError", fs |-> files, reqs |-> <<>>, fault |-> "none"]

\* The outcome of the download command's body on the cache objs, n listings
\* counted: [res, objects, listed, fs, reqs, fault, matches, moved].
DownloadBody(objs, st, b, files, n, destination, query, fast, f) ==
    LET s == IF fast
             THEN [res |-> "ok", objects |-> objs, reqs |-> <<>>,
                   fault |-> "none", listed |-> n]
             ELSE GetObjectsBody(objs, st, b, FaultAt(f, 1), n)
        found_objs == IF fast \/ s.res # "ok" THEN <<>>
                      ELSE Matching(s.objects.items, query)
        k   == Len(s.reqs)
        obj == GetObjectBody(st, b, query, FaultAt(f, k + 1))
        d   == IF obj.res = "None"
               THEN DownloadNoneBody(files, destination, TRUE)
               ELSE DownloadFileBody(st, b, files, FALSE, obj.ret[1].key,
                                     destination, TRUE, After(f, k + 1))
        out(res, fl, reqs, flt, moved) ==
            [res |-> res, objects |-> s.objects, listed |-> s.listed, fs |-> fl,
             reqs |-> reqs, fault |-> flt, matches |-> found_objs, moved |-> moved]
    IN  IF s.res # "ok"
        THEN out(s.res, files, s.reqs, s.fault, <<>>)
        ELSE IF ~fast /\ Len(found_objs) = 0
        THEN out("ok", files, s.reqs, "none", <<>>)
        ELSE IF ~fast /\ Len(found_objs) > 1
        THEN \* len(found_obj): no such name
             out("NameError", files, s.reqs, "none", <<>>)
        ELSE IF obj.res = "ConnectionError"
        THEN out("ConnectionError", files, Append(s.reqs, "HeadObject"),
                 "ConnectionError", <<>>)
        ELSE out(d.res, d.fs, Append(s.reqs, "HeadObject") \o d.reqs,
                 IF d.fault # "none" THEN d.fault ELSE FaultAt(f, k + 1),
                 IF d.res = "ok" THEN <<obj.ret[1].key>> ELSE <<>>)

\* download --destination D --query Q [--fast]
download(destination, query, fast, f) ==
    bucketcheck("download", query,
        LET r == DownloadBody(objects, store, bucket, fs, listed, destination,
                              query, fast, f)
        IN  /\ objects' = r.objects
            /\ listed' = r.listed
            /\ fs' = r.fs
            /\ UNCHANGED <<bucket, store>>
            /\ Returns([Call("download", query) EXCEPT
                           !.res = r.res, !.reqs = r.reqs, !.fault = r.fault,
                           !.dest = destination, !.flag = fast,
                           !.matches = r.matches, !.moved = r.moved]))

\* The lines sys.stdin.readline() can return: an answer and its newline, an
\* empty line, and <<>> at the end of the input.
AnswerLines ==
    {<<"y", "\n">>, <<"Y", "\n">>, <<"n", "\n">>, <<"\n">>, <<>>}

\* A command asks at most once for each object of the bucket.
AnswerLists == [1..Cardinality(Keys) -> AnswerLines]

\* answer[0] with `==` and no .lower()
lower_missing(c) == c

\* str.lower of one character
lower(c) ==
    CASE c = "Y" -> "y"
      [] c = "X" -> "x"
      [] OTHER -> c

\* The loop of the delete command from its i-th object on; acc is what the
\* objects before it came to: [res, store, reqs, fault, asked, answers, moved].
RECURSIVE DeleteEach(_, _, _, _, _, _, _)
DeleteEach(objs, i, acc, b, lines, force, f) ==
    IF i > Len(objs) \/ acc.res # "ok" THEN acc
    ELSE
    LET obj    == objs[i]
        answer == lines[i]
        asked  == IF force THEN acc
                  ELSE [acc EXCEPT !.asked = Append(@, obj.key),
                                   !.answers = Append(@, answer)]
        del    == DeleteObjectBody(acc.store, b, obj.key,
                                   FaultAt(f, Len(acc.reqs) + 1))
        deleted == [asked EXCEPT
                      !.res = del.res,
                      !.store = del.store,
                      !.reqs = Append(@, "DeleteObjects"),
                      !.fault = FaultAt(f, Len(acc.reqs) + 1),
                      !.moved = IF del.res = "ok" THEN Append(@, obj.key) ELSE @]
    IN  IF force THEN DeleteEach(objs, i + 1, deleted, b, lines, force, f)
        ELSE IF answer = <<>>
        THEN \* answer[0] of ''
             [asked EXCEPT !.res = "IndexError"]
        ELSE IF lower(answer[1]) = "y"
        THEN DeleteEach(objs, i + 1, deleted, b, lines, force, f)
        ELSE DeleteEach(objs, i + 1, asked, b, lines, force, f)

\* delete --query Q [--force], the lines read at its prompts being `lines`
delete(query, force, lines, f) ==
    bucketcheck("delete", query,
        LET s    == GetObjectsBody(objects, store, bucket, FaultAt(f, 1), listed)
            objs == IF s.res = "ok" THEN Matching(s.objects.items, query) ELSE <<>>
            r    == DeleteEach(objs, 1,
                               [res |-> s.res, store |-> store, reqs |-> s.reqs,
                                fault |-> s.fault, asked |-> <<>>,
                                answers |-> <<>>, moved |-> <<>>],
                               bucket, lines, force, f)
        IN  /\ objects' = s.objects
            /\ listed' = s.listed
            /\ store' = r.store
            /\ UNCHANGED <<bucket, fs>>
            /\ Returns([Call("delete", query) EXCEPT
                           !.res = r.res, !.reqs = r.reqs, !.fault = r.fault,
                           !.flag = force, !.matches = objs, !.asked = r.asked,
                           !.answers = r.answers, !.moved = r.moved]))

\* What upload is given to upload: a directory, a file in it.
Inputs == {<<"d">>, <<"d", "/", "x">>}

\* The file of the tag metadata, --meta.
MetaFile == <<"f">>

\* io.generate_tagmap: the metadata file is written.
generate_tagmap(files, meta_fn) == [files EXCEPT ![meta_fn] = 2]

\* The outcome of the upload command's body, the files of valid passing
\* io.verify_fq_suffix and io.verify_fq_content, the store keeping s1 and s2 of
\* what is sent: [res, store, fs, reqs, fault, moved].
UploadBody(st, b, files, input, destination, meta_fn, valid, s1, s2, f) ==
    LET out(res, s, fl, reqs, flt, moved) ==
            [res |-> res, store |-> s, fs |-> fl, reqs |-> reqs, fault |-> flt,
             moved |-> moved]
    IN  IF isdir(input)
        THEN \* os.walk(folder): no such name
             out("NameError", st, files, <<>>, "none", <<>>)
        ELSE
        LET ok       == input \in valid
            files1   == IF ok THEN generate_tagmap(files, meta_fn) ELSE files
            file_lst == IF ok THEN <<input>> ELSE <<>>
            u1 == IF ok
                  THEN UploadFileBody(st, b, files1[input], destination, s1, f)
                  ELSE [res |-> "ok", store |-> st, reqs |-> <<>>, fault |-> "none"]
            u2 == UploadFileBody(u1.store, b, files1[meta_fn], destination, s2,
                                 After(f, Len(u1.reqs)))
        IN  IF u1.res # "ok"
            THEN out(u1.res, u1.store, files1, u1.reqs, u1.fault, <<>>)
            ELSE out(u2.res, u2.store, files1, u1.reqs \o u2.reqs, u2.fault,
                     IF u2.res = "ok" THEN Append(file_lst, meta_fn) ELSE file_lst)

\* upload -i PATH --destination D --meta METAFILE; click.Path(exists=True)
upload(input, destination, meta, valid, s1, s2, f) ==
    /\ exists(fs, input)
    /\ IF isdir(input)
       THEN \* the name is looked up before the manager is used
            /\ UNCHANGED <<bucket, objects, store, fs, listed>>
            /\ Returns([Call("upload", destination) EXCEPT
                           !.res = "NameError", !.input = input, !.valid = valid])
       ELSE IF bucket = NoBucket
       THEN \* the files are checked, then upload_file is refused
            /\ fs' = IF input \in valid THEN generate_tagmap(fs, meta) ELSE fs
            /\ UNCHANGED <<bucket, objects, store, listed>>
            /\ Returns([Call("upload", destination) EXCEPT
                           !.res = "UnattachedBucketError", !.input = input,
                           !.valid = valid])
       ELSE LET r == UploadBody(store, bucket, fs, input, destination, meta,
                                valid, s1, s2, f)
            IN  /\ store' = r.store
                /\ fs' = r.fs
                /\ UNCHANGED <<bucket, objects, listed>>
                /\ Returns([Call("upload", destination) EXCEPT
                               !.res = r.res, !.reqs = r.reqs, !.fault = r.fault,
                               !.input = input, !.valid = valid,
                               !.moved = r.moved])

\* A session of commands on one manager.
CliNext ==
    \/ \E b \in Buckets : attach_bucket(b) /\ UNCHANGED pvars
    \/ \E destination \in Destinations, query \in Queries, fast \in BOOLEAN,
          f \in Faults :
          download(destination, query, fast, f) /\ UNCHANGED pvars

SpecCli == Init /\ [][CliNext]_vars

\* A session of deletions by the command.
CliDeleteNext ==
    \/ \E b \in Buckets : attach_bucket(b) /\ UNCHANGED pvars
    \/ \E query \in Queries, force \in BOOLEAN, f \in Lost(MaxRequests) :
        \E lines \in (IF force THEN {[i \in 1..Cardinality(Keys) |-> <<>>]}
                       ELSE AnswerLists) :
          delete(query, force, lines, f) /\ UNCHANGED pvars

SpecCliDelete == Init /\ [][CliDeleteNext]_vars

\* The upload command is run where the directory d holds the file d/x.
CliUploadInit ==
    /\ bucket = NoBucket
    /\ objects = NoObjects
    /\ store = InitialStore
    /\ fs = [p \in FilePaths |-> IF p = <<"d", "/", "y">> THEN 0 ELSE 1]
    /\ last = NoCall
    /\ listed = 0
    /\ PInit(0)

\* A session of uploads by the command.
CliUploadNext ==
    \/ \E b \in Buckets : attach_bucket(b) /\ UNCHANGED pvars
    \/ \E input \in Inputs, destination \in Keys,
          valid \in SUBSET {p \in FilePaths \ {MetaFile} : fs[p] # 0},
          s1 \in Contents,
          s2 \in Contents, f \in Lost(MaxRequests) :
          upload(input, destination, MetaFile, valid, s1, s2, f) /\ UNCHANGED pvars

SpecCliUpload == CliUploadInit /\ [][CliUploadNext]_vars

-----------------------------------------------------------------------------
(* Properties.  Each is stated of the record of the last call and of the    *)
(* state that call left.  A request that gets no response makes the call    *)
(* raise what the client raises (a ConnectionError); where a property names  *)
(* the call's own outcome it is the outcome of a call whose requests were   *)
(* answered.                                                                *)

\* C1: an upload_file whose fetched e_tag differs from the etag calculated of
\* the local file raises MismatchChecksumError, and when it does the attached
\* bucket holds no object of remote_key.
UploadMismatchRemovesObject ==
    (last.op = "upload_file" /\ last.attached) =>
       /\ last.res = "MismatchChecksumError" =>
             /\ ~HasObject(store, bucket, last.arg)
             /\ last.local # last.stored
       /\ (last.fault = "none" /\ 0 \notin {last.local, last.stored}
              /\ last.local # last.stored) =>
             /\ last.res = "MismatchChecksumError"
             /\ ~HasObject(store, bucket, last.arg)

\* An upload was stored with another content, found out, and removed.
UploadMismatchSeen ==
    /\ last.op = "upload_file"
    /\ last.res = "MismatchChecksumError"
    /\ last.local = 1
    /\ last.stored = 2
    /\ last.reqs = <<"PutObject", "HeadObject", "DeleteObjects">>
    /\ ~last.storeSame

\* The methods under bucketcheck.
ObjectOps ==
    {"get_object", "get_objects", "reload_objects", "search_objects",
     "upload_file", "download_file", "delete_object", "read_object"}

\* C2: with no bucket ever attached, every method under bucketcheck raises
\* UnattachedBucketError, sends no request, writes no file, and leaves the
\* manager with no bucket and no listing; list_buckets returns the bucket names.
UnattachedCallsRefused ==
    /\ bucket = NoBucket
    /\ ~objects.loaded
    /\ last.op \in ObjectOps =>
          /\ last.res = "UnattachedBucketError"
          /\ last.reqs = <<>>
          /\ last.fsSame /\ last.storeSame /\ last.cacheSame
    /\ (last.op = "list_buckets" /\ last.fault = "none") =>
          /\ last.res = "ok"
          /\ last.ret = BucketNames
          /\ last.reqs = <<"ListBuckets">>

\* The upload of a file that exists was refused for want of a bucket.
UnattachedUploadRefused ==
    /\ bucket = NoBucket
    /\ last.op = "upload_file"
    /\ last.res = "UnattachedBucketError"
    /\ fs[<<"f">>] # 0
    /\ last.storeSame

\* C3: download_file with force=False to a path where a file is raises
\* LocalFileExistsError without asking the store for the object's content, and
\* leaves that file, and every other, as it was.
DownloadRefusesExistingFile ==
    (last.op = "download_file" /\ last.attached /\ ~last.force /\ last.had # 0) =>
       /\ fs[last.target] = last.had
       /\ last.fsSame
       /\ "GetObject" \notin Range(last.reqs)
       /\ last.fault # "ConnectionError" => last.res = "LocalFileExistsError"

\* A download into a directory met the file an earlier download left there.
DownloadRefusedInDirectory ==
    /\ last.op = "download_file"
    /\ last.res = "LocalFileExistsError"
    /\ last.target = <<"d", "/", "x">>
    /\ last.had # 0
    /\ ~last.force

\* sub occurs in s: s is some characters, then sub, then some more.
Occurs(sub, s) ==
    \E i \in 1..(Len(s) + 1) : \E j \in (i - 1)..Len(s) : SubSeq(s, i, j) = sub

\* ret is what remains of items, in their order, when those whose key string
\* does not occur in are left out.
IsSelection(ret, items, string) ==
    /\ \A i \in 1..Len(items) :
          Occurs(string, items[i].key) <=> items[i] \in Range(ret)
    /\ Range(ret) \subseteq Range(items)
    /\ Len(ret) = Cardinality({i \in 1..Len(items) : Occurs(string, items[i].key)})
    /\ \A i, j \in 1..Len(ret) :
          i < j => \E a, c \in 1..Len(items) :
                      a < c /\ items[a] = ret[i] /\ items[c] = ret[j]

\* C4: search_objects returns the descriptors of the cached listing whose key
\* the string occurs in (the case counting), in the listing's order, none when
\* none matches; it lists the bucket only when there is no cached listing, and
\* leaves a cached listing as it is.
SearchSelectsFromCache ==
    (last.op = "search_objects" /\ last.attached) =>
       /\ last.res = "ok" =>
             /\ objects.loaded
             /\ IsSelection(last.ret, objects.items, last.arg)
       /\ last.arg = <<"X">> => last.ret = <<>>
       /\ last.hadCache =>
             /\ last.res = "ok"
             /\ last.reqs = <<>>
             /\ last.cacheSame
       /\ ~last.hadCache =>
             /\ last.reqs = <<"ListObjects">>
             /\ last.fault = "none" => last.res = "ok"

\* A search of a cached listing of two found one of them.
SearchFoundOne ==
    /\ last.op = "search_objects"
    /\ last.hadCache
    /\ Len(objects.items) = 2
    /\ last.arg = <<"x">>
    /\ Len(last.ret) = 1
    /\ last.ret[1].key = K1

\* C5: attach_bucket leaves no cached listing, so a cached listing is always
\* one of the bucket attached now.
CacheIsOfAttachedBucket ==
    /\ last.op = "attach_bucket" => ~objects.loaded
    /\ objects.loaded =>
          /\ bucket # NoBucket
          /\ \A i \in 1..Len(objects.items) : objects.items[i].bucket_name = bucket

\* A bucket was attached while a listing was cached.
AttachedOverCache ==
    /\ last.op = "attach_bucket"
    /\ last.hadCache
    /\ bucket = "b2"
    /\ ~objects.loaded

\* C6: get_objects returns a cached listing without asking the store, and
\* with none lists the bucket once, keeps that as the cache and returns it;
\* reload_objects always lists the bucket and keeps the new listing.  So
\* get_objects and search_objects list the bucket at most once after the last
\* reload_objects or attach_bucket.
ListingIsCached ==
    /\ (last.op = "get_objects" /\ last.attached /\ last.hadCache) =>
          /\ last.res = "ok"
          /\ last.reqs = <<>>
          /\ last.cacheSame
          /\ last.ret = objects.items
    /\ (last.op = "get_objects" /\ last.attached /\ ~last.hadCache) =>
          /\ last.reqs = <<"ListObjects">>
          /\ last.fault = "none" =>
                /\ last.res = "ok"
                /\ objects = [loaded |-> TRUE, items |-> Listing(store, bucket)]
                /\ last.ret = objects.items
    /\ (last.op = "reload_objects" /\ last.attached) =>
          /\ last.reqs = <<"ListObjects">>
          /\ last.fault = "none" =>
                /\ last.res = "ok"
                /\ objects = [loaded |-> TRUE, items |-> Listing(store, bucket)]
                /\ last.ret = objects.items
    /\ listed <= 1

\* get_objects answered from a cache the store no longer agrees with.
ListingFromCache ==
    /\ last.op = "get_objects"
    /\ last.hadCache
    /\ last.reqs = <<>>
    /\ Len(last.ret) = 2
    /\ objects.items # Listing(store, bucket)
    /\ listed = 1

\* C7: get_object of a key no object has returns None and does not raise,
\* when the store answers; a request that gets no answer raises, and is not
\* reported as None.
GetObjectNotFound ==
    (last.op = "get_object" /\ last.attached) =>
       /\ (~HasObject(store, bucket, last.arg) /\ last.fault # "ConnectionError") =>
             last.res = "None"
       /\ last.fault = "ConnectionError" =>
             /\ last.res = "ConnectionError"
             /\ last.ret = <<>>
       /\ (HasObject(store, bucket, last.arg) /\ last.fault = "none") =>
             /\ last.res = "ok"
             /\ last.ret = <<Object(store, bucket, last.arg)>>
       /\ last.storeSame /\ last.cacheSame /\ last.fsSame

\* get_object returned None for a key that was deleted from the bucket.
GetObjectReturnedNone ==
    /\ last.op = "get_object"
    /\ last.arg = K1
    /\ bucket = "b1"
    /\ last.fault = "none"
    /\ last.res = "None"

\* C8 as stated: after a delete_object that succeeded the cached listing has
\* no descriptor of the deleted key, and after an upload_file that succeeded
\* the cached descriptor of the key is the one of what is stored now.
CacheFollowsChanges ==
    /\ (last.op = "delete_object" /\ last.attached /\ last.res = "ok"
           /\ objects.loaded) =>
          \A i \in 1..Len(objects.items) : objects.items[i].key # last.arg
    /\ (last.op = "upload_file" /\ last.attached /\ last.res = "ok"
           /\ objects.loaded) =>
          \A i \in 1..Len(objects.items) :
             objects.items[i].key = last.arg =>
                objects.items[i].e_tag = ETag(store[bucket][last.arg])

\* C8: delete_object and upload_file leave the cached listing as it is, with
\* the descriptors of objects deleted or replaced, until reload_objects or
\* attach_bucket; a search_objects in between returns from that listing.
ChangesLeaveCache ==
    /\ (last.op \in {"delete_object", "upload_file"} /\ last.attached) =>
          /\ last.cacheSame
          /\ objects.loaded = last.hadCache
    /\ (last.op = "search_objects" /\ last.attached /\ last.hadCache) =>
          /\ last.cacheSame
          /\ last.reqs = <<>>

\* An object was deleted whose descriptor the cached listing still holds.
DeletedStillCached ==
    /\ last.op = "delete_object"
    /\ last.res = "ok"
    /\ ~last.storeSame
    /\ objects.loaded
    /\ \E i \in 1..Len(objects.items) : objects.items[i].key = last.arg
    /\ ~HasObject(store, bucket, last.arg)

\* C9: _calculate_speed changes the speed and the baseline only when the time
\* it reads is more than the interval after _previous_time, and then the time
\* read is the new _previous_time; any other call leaves the speed as it was.
\* So the times of two recomputations are more than one interval apart.
SpeedRecomputedPerInterval ==
    sample.by # 0 =>
       /\ sample.changed =>
             /\ sample.time - sample.before.time > interval * TicksPerSecond
             /\ previous_time = sample.time
       /\ sample.time - sample.before.time > interval * TicksPerSecond =>
             /\ sample.changed
             /\ previous_time = sample.time
       /\ ~(sample.time - sample.before.time > interval * TicksPerSecond) =>
             /\ speed = sample.before.speed
             /\ previous_time = sample.before.time
             /\ previous_bytesize = sample.before.bytesize

\* A callback recomputed the speed, from bytes reported since the baseline.
SpeedRecomputed ==
    /\ sample.by # 0
    /\ sample.changed
    /\ speed > 0
    /\ previous_bytesize > sample.before.bytesize

\* The threads inside `with self._lock`.
Inside == {t \in Threads : pc[t] \in {"load", "store", "speed", "write"}}

\* C10: at most one thread is inside the lock of __call__, the one that holds
\* it, and when every call has returned _seen_so_far is the sum of every
\* bytes_amount passed.
CallbacksSerialized ==
    /\ Cardinality(Inside) <= 1
    /\ \A t \in Inside : lock = t
    /\ (\A t \in Threads : pc[t] = "idle") => seen_so_far = passed.sum

\* A thread is about to leave the lock another one waits for.
CallbackWaited ==
    \E t, u \in Threads :
       /\ pc[t] = "write"
       /\ pc[u] = "acquire"
       /\ seen_so_far > 0
       /\ seen_so_far + amount[u] = passed.sum

\* C11 as stated: the download command without --fast, when search_objects
\* returns exactly one descriptor, transfers that object to the destination,
\* also when the query is only a part of its key; whatever it transfers is one
\* of the matches; with --fast it searches nothing and looks the query up as a key.
DownloadTransfersMatch ==
    (last.op = "download" /\ last.attached) =>
       /\ (~last.flag /\ Len(last.matches) = 1 /\ last.fault = "none"
              /\ HasObject(store, bucket, last.matches[1].key)) =>
             /\ last.res = "ok"
             /\ last.moved = <<last.matches[1].key>>
       /\ ~last.flag =>
             \A i \in 1..Len(last.moved) :
                \E j \in 1..Len(last.matches) : last.matches[j].key = last.moved[i]
       /\ last.flag =>
             /\ last.matches = <<>>
             /\ "ListObjects" \notin Range(last.reqs)
             /\ \A i \in 1..Len(last.moved) : last.moved[i] = last.arg

\* The files of the tree under the directory dir.
Tree(files, dir) ==
    {p \in FilePaths : files[p] # 0 /\ Len(p) > Len(dir) + 1
                       /\ SubSeq(p, 1, Len(dir) + 1) = Append(dir, "/")}

\* C12 as stated: the upload of a directory tree skips the files that fail
\* validation without raising, and uploads every other file of the tree and
\* then the metadata file.
BulkUploadSkipsInvalid ==
    (last.op = "upload" /\ last.attached /\ last.input \in Dirs
        /\ last.fault = "none") =>
       /\ last.res = "ok"
       /\ Len(last.moved) = Cardinality(Tree(fs, last.input) \cap last.valid) + 1
       /\ \A p \in Tree(fs, last.input) :
             p \in Range(last.moved) <=> p \in last.valid
       /\ last.moved[Len(last.moved)] = MetaFile

\* What the delete command has come to in a step that ran it; every request
\* answered where the deletions are told from the answers.
DeleteFollowsAnswers ==
    (last'.op = "delete" /\ last'.attached) =>
       LET m    == last'.matches
           keys == {m[i].key : i \in 1..Len(m)}
           said == last'.answers
           yes(i) == said[i] # <<>> /\ said[i][1] \in {"y", "Y"}
       IN  /\ last'.res = "ok" => IsSelection(m, objects'.items, last'.arg)
           /\ \A b \in Buckets, k \in Keys :
                 store'[b][k] # store[b][k] =>
                    /\ b = bucket
                    /\ k \in keys
                    /\ k \in Range(last'.moved)
                    /\ store'[b][k] = 0
           /\ Range(last'.moved) \subseteq keys
           /\ \A k \in Range(last'.moved) : ~HasObject(store', bucket, k)
           /\ last'.flag =>
                 /\ last'.asked = <<>>
                 /\ last'.fault = "none" =>
                       /\ last'.res = "ok"
                       /\ last'.moved = [i \in 1..Len(m) |-> m[i].key]
           /\ ~last'.flag =>
                 /\ Len(last'.asked) = Len(said)
                 /\ Len(last'.asked) <= Len(m)
                 /\ \A i \in 1..Len(last'.asked) : last'.asked[i] = m[i].key
                 /\ \A i \in 1..Len(said) : ~yes(i) => m[i].key \notin Range(last'.moved)
                 /\ last'.fault = "none" =>
                       /\ \A i \in 1..Len(said) :
                             yes(i) <=> m[i].key \in Range(last'.moved)
                       /\ <<>> \notin Range(said) =>
                             /\ last'.res = "ok"
                             /\ Len(last'.asked) = Len(m)

\* C13: the delete command with --force deletes every object search_objects
\* returned and asks nothing; without it, it asks once for each such object,
\* in order, and deletes the object exactly when the line read starts with y
\* or Y; no object that is not among those returned is deleted.
DeleteCommandDeletesMatches == [][DeleteFollowsAnswers]_vars

\* Two objects matched: the first was deleted on "Y", the second kept on "n".
DeleteAnsweredBothWays ==
    /\ last.op = "delete"
    /\ ~last.flag
    /\ last.res = "ok"
    /\ Len(last.matches) = 2
    /\ last.answers = <<(<<"Y", "\n">>), (<<"n", "\n">>)>>
    /\ last.moved = <<K1>>
    /\ ~HasObject(store, bucket, K1)
    /\ HasObject(store, bucket, K2)

\* What delete_object has come to in a step that ran it.
DeleteRemovesOnlyKey ==
    (last'.op = "delete_object" /\ last'.attached) =>
       /\ last'.reqs = <<"DeleteObjects">>
       /\ last'.fault = "none" =>
             /\ last'.res = "ok"
             /\ ~HasObject(store', bucket, last'.arg)
             /\ \A b \in Buckets, k \in Keys :
                   (b # bucket \/ k # last'.arg) => store'[b][k] = store[b][k]
             /\ ~HasObject(store, bucket, last'.arg) => store' = store
       /\ last'.fault # "none" => store' = store
       /\ fs' = fs
       /\ objects' = objects

\* C14: delete_object sends one delete request; once it is answered no object
\* of the bucket has the key and every other object, of this and of any other
\* bucket, is as it was; for a key no object has the call succeeds and the
\* store is as it was.
DeleteObjectFrame == [][DeleteRemovesOnlyKey]_vars

\* One of the two objects of a bucket was deleted.
DeletedOneOfTwo ==
    /\ last.op = "delete_object"
    /\ last.res = "ok"
    /\ ~last.storeSame
    /\ bucket = "b1"
    /\ last.arg = K1
    /\ ~HasObject(store, bucket, K1)
    /\ HasObject(store, bucket, K2)

\* What follows the last "/" of key: the end of key that holds no "/" and comes
\* right after one, or is all of key.
BaseOf(key) ==
    CHOOSE s \in {SubSeq(key, i, Len(key)) : i \in 1..(Len(key) + 1)} :
       /\ "/" \notin Range(s)
       /\ Len(s) = Len(key) \/ key[Len(key) - Len(s)] = "/"

\* download_file had an object to work on: it was given one, or its lookup of
\* the key found one.
HadObject(call) ==
    \/ ~call.bare
    \/ /\ HasObject(store, bucket, call.arg)
       /\ call.fault # "ClientError"
       /\ ~(call.fault = "ConnectionError" /\ call.reqs = <<"HeadObject">>)

\* What download_file to a directory has come to in a step that ran it.
DownloadResolvesDirectory ==
    (last'.op = "download_file" /\ last'.attached /\ last'.dest \in Dirs
        /\ HadObject(last')) =>
       LET path == last'.dest \o <<"/">> \o BaseOf(last'.arg)
       IN  /\ last'.target = path
           /\ last'.had = fs[path]
           /\ last'.res = "LocalFileExistsError" <=> (~last'.force /\ fs[path] # 0)
           /\ (~last'.force /\ fs[path] # 0) => fs' = fs
           /\ last'.res = "ok" =>
                 /\ fs'[path] = store[bucket][last'.arg]
                 /\ \A p \in FilePaths \ {path} : fs'[p] = fs[p]
           /\ last'.res # "ok" => fs' = fs

\* C15: download_file to an existing directory takes the directory joined
\* with the base name of the object's key as the path: it raises
\* LocalFileExistsError only when a file is at that path and force is False,
\* then leaving every file as it was, and otherwise writes that path alone.
DownloadIntoDirectory == [][DownloadResolvesDirectory]_vars

\* An object was downloaded into a directory, to a file that was not there.
DownloadedIntoDirectory ==
    /\ last.op = "download_file"
    /\ last.dest = <<"d">>
    /\ last.arg = K2
    /\ last.res = "ok"
    /\ last.had = 0
    /\ ~last.force
    /\ fs[<<"d", "/", "y">>] = store[bucket][K2]
    /\ fs[<<"d", "/", "x">>] = 0

\* download_file was given a key and its lookup returned None: the store
\* answered that no object has the key, or answered with another error.
LookupReturnedNone(call) ==
    /\ call.bare
    /\ \/ call.fault = "ClientError"
       \/ call.fault = "none" /\ ~HasObject(store, bucket, call.arg)

\* C16: download_file with a key whose lookup returns None raises, asks the
\* store for no content and leaves every local file as it was, whatever force
\* is and whether the destination is no file yet, a file or a directory.
DownloadOfMissingKeyFails ==
    (last.op = "download_file" /\ last.attached /\ LookupReturnedNone(last)) =>
       /\ last.res \in {"AttributeError", "LocalFileExistsError"}
       /\ last.res = "LocalFileExistsError" <=>
             (~last.force /\ last.dest \notin Dirs /\ fs[last.dest] # 0)
       /\ last.reqs = <<"HeadObject">>
       /\ last.fsSame
       /\ last.storeSame

\* A forced download of a key no object has, over a file that exists.
DownloadOfMissingKeyForced ==
    /\ last.op = "download_file"
    /\ last.bare
    /\ last.arg = <<"a", "/", "z">>
    /\ last.force
    /\ last.dest = <<"f">>
    /\ last.fault = "none"
    /\ last.res = "AttributeError"
    /\ fs[<<"f">>] # 0

=============================================================================
